---------------------------- MODULE Spec2Model ----------------------------
(***************************************************************************)
(* Model of the user microservice (src/src/index.ts): the AppServer        *)
(* singleton, its middleware stack (CORS origin policy, JSON body parser,  *)
(* the two REST routes, the GraphQL endpoint, the Swagger documentation),  *)
(* the startup sequence of the entry point, and the requests in flight,    *)
(* each suspended at the storage query its handler awaits.                 *)
(*                                                                         *)
(* Strings the code parses (path segments) are sequences of one-character  *)
(* strings; an optional string (the Origin header) is a sequence of length *)
(* zero (undefined) or one.                                                *)
(***************************************************************************)
EXTENDS Integers, Sequences, FiniteSets, TLC

(***************************************************************************)
(* Bounds of the model.                                                    *)
(***************************************************************************)
\* Ids a stored user may have: 1..MaxId.
MaxId == 2
\* Requests that may be open (in flight or answered and not yet closed).
MaxOpen == 2

(***************************************************************************)
(* JavaScript numbers, as far as Number(string) and isNaN need them:       *)
(* NaN, +-Infinity, or a finite decimal num/den with den a power of ten,   *)
(* in lowest terms over the powers of ten (den = 1 for an integer).        *)
(***************************************************************************)
NaN == [kind |-> "nan", num |-> 0, den |-> 1]
Inf(sign) == [kind |-> "inf", num |-> sign, den |-> 1]

RECURSIVE Reduce(_, _)
Reduce(n, d) ==
    IF d > 1 /\ n % 10 = 0 THEN Reduce(n \div 10, d \div 10)
    ELSE [kind |-> "fin", num |-> n, den |-> d]

Fin(n) == [kind |-> "fin", num |-> n, den |-> 1]

RECURSIVE Pow(_, _)
Pow(b, e) == IF e <= 0 THEN 1 ELSE b * Pow(b, e - 1)

IsInteger(v) == v.kind = "fin" /\ v.den = 1

\* The global isNaN applied to a number.
isNaN(v) == v.kind = "nan"

(***************************************************************************)
(* Number(string): ECMAScript StringToNumber.  White space is trimmed; the *)
(* empty string is 0; "Infinity" with an optional sign; 0x/0o/0b integer   *)
(* literals without sign; otherwise a signed decimal literal with optional *)
(* fraction and exponent; anything else is NaN.                            *)
(***************************************************************************)
WhiteSpace == {" ", "\t", "\n", "\r"}
DecDigits == <<"0", "1", "2", "3", "4", "5", "6", "7", "8", "9">>
HexDigits == DecDigits \o <<"a", "b", "c", "d", "e", "f">>

RECURSIVE TrimStart(_)
TrimStart(s) ==
    IF s # <<>> /\ Head(s) \in WhiteSpace THEN TrimStart(Tail(s)) ELSE s

RECURSIVE TrimEnd(_)
TrimEnd(s) ==
    IF s # <<>> /\ s[Len(s)] \in WhiteSpace
    THEN TrimEnd(SubSeq(s, 1, Len(s) - 1)) ELSE s

Trim(s) == TrimEnd(TrimStart(s))

Lower(c) ==
    CASE c = "A" -> "a" [] c = "B" -> "b" [] c = "C" -> "c"
      [] c = "D" -> "d" [] c = "E" -> "e" [] c = "F" -> "f"
      [] c = "X" -> "x" [] c = "O" -> "o" [] OTHER -> c

\* The value of digit character c in the given radix, or -1.
DigitValue(c, radix) ==
    LET hits == {i \in 1..radix : HexDigits[i] = Lower(c)}
    IN  IF hits = {} THEN -1 ELSE (CHOOSE i \in hits : TRUE) - 1

AllDigits(s, radix) == \A i \in 1..Len(s) : DigitValue(s[i], radix) >= 0

RECURSIVE DigitsValue(_, _)
DigitsValue(s, radix) ==
    IF s = <<>> THEN 0
    ELSE DigitsValue(SubSeq(s, 1, Len(s) - 1), radix) * radix
         + DigitValue(s[Len(s)], radix)

\* Index of the first character of s that is in set cs, or 0.
IndexOf(s, cs) ==
    LET hits == {i \in 1..Len(s) : s[i] \in cs}
    IN  IF hits = {} THEN 0 ELSE CHOOSE i \in hits : \A j \in hits : i <= j

SignOf(s) == IF s # <<>> /\ s[1] = "-" THEN -1 ELSE 1
Unsigned(s) == IF s # <<>> /\ s[1] \in {"+", "-"} THEN Tail(s) ELSE s

RadixOf(s) ==
    IF Len(s) >= 2 /\ s[1] = "0"
    THEN CASE Lower(s[2]) = "x" -> 16
           [] Lower(s[2]) = "o" -> 8
           [] Lower(s[2]) = "b" -> 2
           [] OTHER -> 10
    ELSE 10

\* A StrUnsignedDecimalLiteral other than Infinity, times sign.
DecimalLiteral(s, sign) ==
    LET e    == IndexOf(s, {"e", "E"})
        mant == IF e = 0 THEN s ELSE SubSeq(s, 1, e - 1)
        expo == IF e = 0 THEN <<>> ELSE SubSeq(s, e + 1, Len(s))
        dot  == IndexOf(mant, {"."})
        int  == IF dot = 0 THEN mant ELSE SubSeq(mant, 1, dot - 1)
        frac == IF dot = 0 THEN <<>> ELSE SubSeq(mant, dot + 1, Len(mant))
        mantOk == /\ AllDigits(int, 10) /\ AllDigits(frac, 10)
                  /\ Len(int) + Len(frac) > 0
        expOk  == e = 0 \/ (Unsigned(expo) # <<>> /\ AllDigits(Unsigned(expo), 10))
        shift  == SignOf(expo) * DigitsValue(Unsigned(expo), 10) - Len(frac)
        m      == sign * DigitsValue(int \o frac, 10)
    IN  IF ~(mantOk /\ expOk) THEN NaN
        ELSE IF shift >= 0 THEN Fin(m * Pow(10, shift))
        ELSE Reduce(m, Pow(10, -shift))

StringToNumber(s) ==
    LET t == Trim(s)
        u == Unsigned(t)
    IN  IF t = <<>> THEN Fin(0)
        ELSE IF u = <<"I", "n", "f", "i", "n", "i", "t", "y">> THEN Inf(SignOf(t))
        ELSE IF RadixOf(t) # 10
             THEN LET ds == SubSeq(t, 3, Len(t))
                  IN  IF ds # <<>> /\ AllDigits(ds, RadixOf(t))
                      THEN Fin(DigitsValue(ds, RadixOf(t))) ELSE NaN
        ELSE DecimalLiteral(u, SignOf(t))

(***************************************************************************)
(* The storage gateway (the Prisma client).  A stored user has an id, a    *)
(* name, and a column the service never projects.  findUnique looks an     *)
(* integer id up; for a number that is no integer the client either        *)
(* rejects the query or finds nothing.  findMany returns all rows in an    *)
(* order the store chooses.                                                *)
(***************************************************************************)
Names == <<"Ada", "Grace">>
Row(i) == [id |-> i, name |-> Names[(i % 2) + 1], email |-> "private"]
Tables == {{Row(i) : i \in ids} : ids \in SUBSET (1..MaxId)}

NoQuery == [op |-> "none", arg |-> NaN]

\* The outcomes of a query against table d: whether the promise resolved, and
\* the rows it resolved to (no row for null).
findUnique(d, v) ==
    IF IsInteger(v)
    THEN {[ok |-> TRUE,
           rows |-> IF \E u \in d : u.id = v.num
                    THEN <<CHOOSE u \in d : u.id = v.num>> ELSE <<>>]}
    ELSE {[ok |-> FALSE, rows |-> <<>>], [ok |-> TRUE, rows |-> <<>>]}

Orderings(d) ==
    {s \in [1..Cardinality(d) -> d] : \A u \in d : \E i \in DOMAIN s : s[i] = u}

findMany(d) == {[ok |-> TRUE, rows |-> s] : s \in Orderings(d)}

(***************************************************************************)
(* The origin policy: the origin callback handed to cors().                *)
(***************************************************************************)
\* A list that also lets a subdomain in.
allowedOriginsWithSubdomain ==
    <<"http://example.com", "https://example.com", "https://sub.example.com">>

allowedOrigins == <<"http://example.com", "https://example.com">>

includes(arr, v) == \E i \in 1..Len(arr) : arr[i] = v

\* !origin: undefined or the empty string.
Falsy(origin) == origin = <<>> \/ origin[1] = ""

\* TRUE for callback(null, true), FALSE for callback(new Error(...)).
OriginPolicy(origin) == Falsy(origin) \/ includes(allowedOrigins, origin[1])

(***************************************************************************)
(* Responses.  A body is a kind and a sequence of JSON objects.            *)
(***************************************************************************)
NoBody == [kind |-> "none", items |-> <<>>]
JsonObject(o) == [kind |-> "object", items |-> <<o>>]
JsonArray(os) == [kind |-> "array", items |-> os]

InvalidIdError == [error |-> "ID inválido"]
NotFoundError == [error |-> "Usuario no encontrado"]

\* The stored record as it is.
ProjectWholeRecord(u) == u

\* { id: user.id, name: user.name }
Project(u) == [id |-> u.id, name |-> u.name]

\* users.map(u => ({ id: u.id, name: u.name }))
ProjectEach(us) == [i \in 1..Len(us) |-> Project(us[i])]

\* The fields of the GraphQL type User.
UserType == {"id", "name"}

\* The resolved object as it is, whatever was selected.
SelectWholeRecord(u, sel) == u

\* GraphQL execution of a selection set on a resolved object.
Select(u, sel) == [f \in sel \cap UserType |-> u[f]]

SelectEach(us, sel) == [i \in 1..Len(us) |-> Select(us[i], sel)]

(***************************************************************************)
(* The middleware stack in registration order, and one request's walk      *)
(* through it up to its response or its first await.                       *)
(***************************************************************************)
\* The origin policy registered after the routes.
ConstructorStackCorsLast ==
    <<"json", "GET /users/:id", "GET /users", "/graphql", "/api-docs", "cors">>

ConstructorStack ==
    <<"cors", "json", "GET /users/:id", "GET /users", "/graphql", "/api-docs">>

Received(req) ==
    [req |-> req, pc |-> "next", ran |-> <<>>, query |-> NoQuery,
     result |-> <<>>, status |-> 0, body |-> NoBody]

Ran(e, layer) == [e EXCEPT !.ran = Append(@, layer)]

Respond(e, status, body) ==
    [e EXCEPT !.pc = "done", !.status = status, !.body = body]

Await(e, op, arg) ==
    [e EXCEPT !.pc = "await", !.query = [op |-> op, arg |-> arg]]

\* cors(): the origin callback decides; a denial is passed on as an error.
Cors(e) ==
    IF OriginPolicy(e.req.origin) THEN Ran(e, "cors")
    ELSE [Ran(e, "cors") EXCEPT !.pc = "error"]

\* express.json(): parses the body and passes on.
Json(e) == Ran(e, "json")

\* GET /users/:id up to its await.
RestUser(e) ==
    IF e.req.path = "/users" /\ e.req.param # <<>>
    THEN LET id == StringToNumber(e.req.param[1])
             r  == Ran(e, "GET /users/:id")
         IN  IF isNaN(id) THEN Respond(r, 400, JsonObject(InvalidIdError))
             ELSE Await(r, "findUnique", id)
    ELSE e

\* GET /users up to its await.
RestUsers(e) ==
    IF e.req.path = "/users" /\ e.req.param = <<>>
    THEN Await(Ran(e, "GET /users"), "findMany", NaN)
    ELSE e

\* graphqlHTTP: the root resolver of the queried field, up to its promise.
GraphQL(e) ==
    IF e.req.path = "/graphql"
    THEN IF e.req.gql.field = "user"
         THEN Await(Ran(e, "/graphql"), "findUnique", Fin(e.req.gql.id))
         ELSE Await(Ran(e, "/graphql"), "findMany", NaN)
    ELSE e

\* swaggerUi.serve / setup: the static documentation page.
Swagger(e) ==
    IF e.req.path = "/api-docs"
    THEN Respond(Ran(e, "/api-docs"), 200, [kind |-> "html", items |-> <<>>])
    ELSE e

Layer(name, e) ==
    CASE name = "cors" -> Cors(e)
      [] name = "json" -> Json(e)
      [] name = "GET /users/:id" -> RestUser(e)
      [] name = "GET /users" -> RestUsers(e)
      [] name = "/graphql" -> GraphQL(e)
      [] name = "/api-docs" -> Swagger(e)

\* Express: the next layer, the error handler after next(err), or no route.
RECURSIVE Walk(_, _, _)
Walk(st, i, e) ==
    IF i > Len(st) THEN Respond(e, 404, [kind |-> "html", items |-> <<>>])
    ELSE LET r == Layer(st[i], e)
         IN  IF r.pc = "next" THEN Walk(st, i + 1, r)
             ELSE IF r.pc = "error"
                  THEN Respond(r, 500, [kind |-> "html", items |-> <<>>])
             ELSE r

Dispatch(st, req) == Walk(st, 1, Received(req))

(***************************************************************************)
(* The continuations after the awaited storage query.                      *)
(***************************************************************************)
\* res.json(user) whether or not a user was found.
RestUserAfterNoNullCheck(e, out) ==
    IF ~out.ok THEN [e EXCEPT !.pc = "failed"]
    ELSE Respond([e EXCEPT !.result = out.rows], 200,
                 [kind |-> "object", items |-> ProjectEach(out.rows)])

\* The error payloads of the two branches exchanged.
RestUserAfterWrongError(e, out) ==
    IF ~out.ok THEN [e EXCEPT !.pc = "failed"]
    ELSE IF out.rows # <<>>
         THEN Respond([e EXCEPT !.result = out.rows], 200,
                      JsonObject(Project(out.rows[1])))
         ELSE Respond([e EXCEPT !.result = out.rows], 404,
                      JsonObject(InvalidIdError))

\* res.json(users) without the projection.
RestUsersAfterNoMap(e, out) ==
    Respond([e EXCEPT !.result = out.rows], 200, JsonArray(out.rows))

\* GET /users/:id after findUnique: a rejected query leaves no response.
RestUserAfter(e, out) ==
    LET user == out.rows
        r    == [e EXCEPT !.result = user]
    IN  IF ~out.ok THEN [e EXCEPT !.pc = "failed"]
        ELSE IF user # <<>>
             THEN Respond(r, 200, JsonObject(Project(user[1])))
             ELSE Respond(r, 404, JsonObject(NotFoundError))

\* GET /users after findMany.
RestUsersAfter(e, out) ==
    LET users == out.rows
    IN  Respond([e EXCEPT !.result = users], 200, JsonArray(ProjectEach(users)))

\* graphqlHTTP after the resolver's promise: { data: { user | users } }.
GraphQLAfter(e, out) ==
    Respond([e EXCEPT !.result = out.rows], 200,
            [kind |-> "data." \o e.req.gql.field,
             items |-> SelectEach(out.rows, e.req.gql.sel)])

Outcomes(d, q) == IF q.op = "findUnique" THEN findUnique(d, q.arg) ELSE findMany(d)

(***************************************************************************)
(* Requests the model sends.                                               *)
(***************************************************************************)
NoGql == [field |-> "", id |-> 0, sel |-> {}]

Segments ==
    { <<"a", "b", "c">>, <<"1", ".", "5">>, <<"1", "e", "3">>,
      <<"I", "n", "f", "i", "n", "i", "t", "y">>, <<" ">>,
      <<"1">>, <<"0", "2">> }

Origins ==
    { <<>>, <<"">>, <<"http://example.com">>, <<"https://example.com">>,
      <<"http://evil.com">>, <<"https://sub.example.com">>,
      <<"http://example.com:3000">>, <<"HTTP://EXAMPLE.COM">>,
      <<"http://example.com/">> }

\* The origins sent with every target; the others go with less.
CoreOrigins == { <<>>, <<"https://example.com">> }

Targets ==
    {[path |-> "/users", param |-> <<s>>, gql |-> NoGql] : s \in Segments}
    \cup {[path |-> "/users", param |-> <<>>, gql |-> NoGql]}
    \cup {[path |-> "/graphql", param |-> <<>>,
           gql |-> [field |-> "user", id |-> i, sel |-> UserType]] : i \in {1, 3}}
    \cup {[path |-> "/graphql", param |-> <<>>,
           gql |-> [field |-> "users", id |-> 0, sel |-> UserType]]}
    \cup {[path |-> "/api-docs", param |-> <<>>, gql |-> NoGql]}

Request(o, t) == [origin |-> o, path |-> t.path, param |-> t.param, gql |-> t.gql]

\* One target of each path.
PathTargets ==
    {t \in Targets : /\ t.param \in {<<>>, << <<"1">> >>}
                     /\ t.gql.field \in {"", "users"}}

Requests ==
    {Request(o, t) : o \in CoreOrigins, t \in Targets}
    \cup {Request(<<"http://evil.com">>, t) : t \in PathTargets}
    \cup {Request(o, t) : o \in Origins, t \in {x \in Targets : x.path = "/api-docs"}}

(***************************************************************************)
(* State.                                                                  *)
(***************************************************************************)
VARIABLES
    phase,      \* position of the entry point: entry, constructed, connecting,
                \* listening, exited
    stack,      \* the layers registered on app, <<>> before construction
    connected,  \* prisma.$connect() has resolved
    listening,  \* app.listen() has been called
    exitCode,   \* the status of process.exit, -1 while the process runs
    db,         \* the stored users
    open        \* the requests in flight or answered and not yet closed

vars == <<phase, stack, connected, listening, exitCode, db, open>>

Init ==
    /\ phase = "entry"
    /\ stack = <<>>
    /\ connected = FALSE
    /\ listening = FALSE
    /\ exitCode = -1
    /\ db \in Tables
    /\ open = {}

\* AppServer.getInstance(): constructs the singleton once.
getInstance ==
    /\ phase = "entry"
    /\ stack' = IF stack = <<>> THEN ConstructorStack ELSE stack
    /\ phase' = "constructed"
    /\ UNCHANGED <<connected, listening, exitCode, db, open>>

\* start() calling app.listen before it awaits the connection.
startListenFirst ==
    /\ phase = "constructed"
    /\ phase' = "connecting"
    /\ listening' = TRUE
    /\ UNCHANGED <<stack, connected, exitCode, db, open>>

\* start(): up to `await this.prisma.$connect()`.
start ==
    /\ phase = "constructed"
    /\ phase' = "connecting"
    /\ UNCHANGED <<stack, connected, listening, exitCode, db, open>>

\* start() after $connect resolved: app.listen(port).
startListen ==
    /\ phase = "connecting"
    /\ connected' = TRUE
    /\ listening' = TRUE
    /\ phase' = "listening"
    /\ UNCHANGED <<stack, exitCode, db, open>>

\* start() after $connect rejected: the catch block, process.exit(1).
startFail ==
    /\ phase = "connecting"
    /\ exitCode' = 1
    /\ phase' = "exited"
    /\ UNCHANGED <<stack, connected, listening, db, open>>

\* A request arrives and runs through the stack to its response or await.
Arrive(req) ==
    /\ listening /\ exitCode = -1
    /\ Cardinality(open) < MaxOpen
    /\ Dispatch(stack, req) \notin open
    /\ open' = open \cup {Dispatch(stack, req)}
    /\ UNCHANGED <<phase, stack, connected, listening, exitCode, db>>

\* The continuation reading an id another request in flight left behind.
RestUserResumeSharedId(e) ==
    /\ e.ran[Len(e.ran)] = "GET /users/:id"
    /\ e.pc = "await"
    /\ \E f \in open :
          /\ f.pc = "await" /\ f.query.op = "findUnique"
          /\ \E out \in findUnique(db, f.query.arg) :
                open' = (open \ {e}) \cup {RestUserAfter(e, out)}
    /\ UNCHANGED <<phase, stack, connected, listening, exitCode, db>>

RestUserResume(e) ==
    /\ e.ran[Len(e.ran)] = "GET /users/:id"
    /\ e.pc = "await"
    /\ \E out \in Outcomes(db, e.query) :
          open' = (open \ {e}) \cup {RestUserAfter(e, out)}
    /\ UNCHANGED <<phase, stack, connected, listening, exitCode, db>>

RestUsersResume(e) ==
    /\ e.ran[Len(e.ran)] = "GET /users"
    /\ e.pc = "await"
    /\ \E out \in Outcomes(db, e.query) :
          open' = (open \ {e}) \cup {RestUsersAfter(e, out)}
    /\ UNCHANGED <<phase, stack, connected, listening, exitCode, db>>

GraphQLResume(e) ==
    /\ e.ran[Len(e.ran)] = "/graphql"
    /\ e.pc = "await"
    /\ \E out \in Outcomes(db, e.query) :
          open' = (open \ {e}) \cup {GraphQLAfter(e, out)}
    /\ UNCHANGED <<phase, stack, connected, listening, exitCode, db>>

\* The client is gone: the answered (or abandoned) request is forgotten.
Close(e) ==
    /\ e.pc # "await"
    /\ open' = open \ {e}
    /\ UNCHANGED <<phase, stack, connected, listening, exitCode, db>>

Next ==
    \/ getInstance
    \/ start
    \/ startListen
    \/ startFail
    \/ \E req \in Requests : Arrive(req)
    \/ \E e \in open : RestUserResume(e)
    \/ \E e \in open : RestUsersResume(e)
    \/ \E e \in open : GraphQLResume(e)
    \/ \E e \in open : Close(e)

Spec == Init /\ [][Next]_vars


(***************************************************************************)
(* Properties.                                                             *)
(***************************************************************************)
Handlers == {"GET /users/:id", "GET /users", "/graphql", "/api-docs"}
HandlerRan(e) == \E i \in 1..Len(e.ran) : e.ran[i] \in Handlers

IsRestUser(e) == e.req.path = "/users" /\ e.req.param # <<>>
IsRestUsers(e) == e.req.path = "/users" /\ e.req.param = <<>>
IsGql(e, field) == e.req.path = "/graphql" /\ e.req.gql.field = field

\* The request was let through by the origin policy.
Admitted(e) == OriginPolicy(e.req.origin)

\* The segment is written as an integer: an optional sign and decimal digits.
IsIntegerLiteral(s) == Unsigned(s) # <<>> /\ AllDigits(Unsigned(s), 10)

\* The id the segment of a GET /users/:id request parses to.
ParsedId(e) == StringToNumber(e.req.param[1])
Stored(v) == IsInteger(v) /\ \E u \in db : u.id = v.num

ItemSet(b) == {b.items[i] : i \in 1..Len(b.items)}

\* C1: for every path segment that is not written as an integer, an admitted
\* GET /users/:id never issues a storage query and, once answered, has
\* status 400.
C1_NonIntegerSegmentIs400WithoutQuery ==
    \A e \in open :
        (IsRestUser(e) /\ Admitted(e) /\ ~IsIntegerLiteral(e.req.param[1]))
        => /\ e.query.op = "none"
           /\ e.pc = "done" => e.status = 400

\* C2: for every id present in storage, an admitted GET /users/:id is answered
\* 200 with exactly the {id, name} projection of the stored record of that id.
C2_PresentIdIs200WithProjection ==
    \A e \in open :
        (IsRestUser(e) /\ Admitted(e) /\ Stored(ParsedId(e)))
        => /\ e.pc \in {"await", "done"}
           /\ e.pc = "done" =>
                /\ e.status = 200
                /\ e.body.kind = "object" /\ Len(e.body.items) = 1
                /\ DOMAIN e.body.items[1] = {"id", "name"}
                /\ \E u \in db :
                      /\ u.id = ParsedId(e).num
                      /\ e.body.items[1].id = u.id
                      /\ e.body.items[1].name = u.name

C2_Witness ==
    \E e \in open :
        /\ IsRestUser(e) /\ Admitted(e) /\ Stored(ParsedId(e))
        /\ e.pc = "done" /\ e.status = 200

\* C3: for every id that parses as an integer and is absent from storage, an
\* admitted GET /users/:id is answered 404 with an error payload, never 200.
C3_AbsentIdIs404 ==
    \A e \in open :
        (IsRestUser(e) /\ Admitted(e) /\ IsInteger(ParsedId(e))
            /\ ~Stored(ParsedId(e)))
        => /\ e.pc \in {"await", "done"}
           /\ e.pc = "done" =>
                /\ e.status = 404 /\ e.status # 200
                /\ e.body.kind = "object" /\ Len(e.body.items) = 1
                /\ DOMAIN e.body.items[1] = {"error"}

C3_Witness ==
    \E e \in open :
        /\ IsRestUser(e) /\ Admitted(e)
        /\ IsInteger(ParsedId(e)) /\ ~Stored(ParsedId(e))
        /\ e.pc = "done" /\ e.status = 404

\* C4: for every storage content, an admitted GET /users is answered 200 with
\* a sequence as long as the number of stored records whose i-th element is
\* the {id, name} projection of the i-th record the gateway returned, and no
\* other field appears.
C4_UsersIsProjectedSequence ==
    \A e \in open :
        (IsRestUsers(e) /\ Admitted(e))
        => /\ e.pc \in {"await", "done"}
           /\ e.pc = "done" =>
                /\ e.status = 200 /\ e.body.kind = "array"
                /\ Len(e.body.items) = Cardinality(db)
                /\ Len(e.result) = Cardinality(db)
                /\ {e.result[i] : i \in 1..Len(e.result)} = db
                /\ \A i \in 1..Len(e.body.items) :
                      /\ DOMAIN e.body.items[i] = {"id", "name"}
                      /\ e.body.items[i].id = e.result[i].id
                      /\ e.body.items[i].name = e.result[i].name

C4_Witness ==
    \E e \in open :
        /\ IsRestUsers(e) /\ Admitted(e) /\ e.pc = "done"
        /\ Len(e.body.items) = 2
        /\ e.result[1].id > e.result[2].id

\* C5: a request whose origin the policy denies is rejected before any route
\* handler runs, on every path: no handler ran, no storage query was issued;
\* a request with Origin https://example.com reaches its handler.
C5_DeniedOriginRunsNoHandler ==
    \A e \in open :
        /\ ~OriginPolicy(e.req.origin) =>
              /\ ~HandlerRan(e) /\ e.ran = <<"cors">>
              /\ e.query.op = "none" /\ e.result = <<>>
              /\ e.pc = "done" /\ e.status = 500
        /\ e.req.origin = <<"http://evil.com">> => ~HandlerRan(e)
        /\ e.req.origin = <<"https://example.com">> => HandlerRan(e)

C5_Witness ==
    \E e, f \in open :
        /\ e.req.origin = <<"http://evil.com">> /\ e.req.path = "/graphql"
        /\ e.pc = "done" /\ e.status = 500
        /\ f.req.origin = <<"https://example.com">> /\ f.req.path = "/graphql"
        /\ f.pc = "done" /\ f.status = 200

\* The request passed the cors layer (cors ran and passed it on, or a
\* handler answered it).
Passed(e) == e.pc # "done" \/ e.status # 500

\* C6 as stated: a request is allowed iff its origin is absent or exactly one
\* of the two listed origins; every other origin string, the empty string
\* included, is denied.
C6_AllowedIffAbsentOrListed ==
    \A e \in open :
        Passed(e) <=> (\/ e.req.origin = <<>>
                       \/ e.req.origin[1] \in {"http://example.com",
                                                "https://example.com"})

\* C6 as amended: a request is allowed iff its origin is absent, is the empty
\* string, or is exactly one of the two listed origins; every other origin
\* string is denied; and two requests of the same origin get the same decision.
C6_AllowedIffAbsentEmptyOrListed ==
    /\ \A e \in open :
          Passed(e) <=> (\/ e.req.origin = <<>>
                         \/ e.req.origin[1] \in {"", "http://example.com",
                                                  "https://example.com"})
    /\ \A e, f \in open : e.req.origin = f.req.origin => (Passed(e) <=> Passed(f))

C6_Witness ==
    \E e, f \in open :
        /\ e.req.origin = <<"">> /\ Passed(e) /\ e.pc = "done"
        /\ f.req.origin = <<"https://sub.example.com">> /\ ~Passed(f)

\* C7: for every id present in storage, the GraphQL query user(id) {id name}
\* returns the same {id, name} data as GET /users/:id, and users {id name}
\* returns the same set of {id, name} records as GET /users.
C7_GraphQLAgreesWithRest ==
    \A e, f \in open :
        (Admitted(e) /\ Admitted(f) /\ e.pc = "done" /\ f.pc = "done")
        => /\ (IsRestUser(e) /\ IsGql(f, "user") /\ Stored(ParsedId(e))
                 /\ ParsedId(e) = Fin(f.req.gql.id))
              => (f.status = 200 /\ f.body.items = e.body.items
                    /\ Len(f.body.items) = 1)
           /\ (IsRestUsers(e) /\ IsGql(f, "users"))
              => (f.status = 200 /\ ItemSet(f.body) = ItemSet(e.body)
                    /\ Len(f.body.items) = Len(e.body.items))

C7_Witness ==
    \E e, f \in open :
        /\ Admitted(e) /\ Admitted(f) /\ e.pc = "done" /\ f.pc = "done"
        /\ \/ IsRestUser(e) /\ IsGql(f, "user") /\ Stored(ParsedId(e))
               /\ ParsedId(e) = Fin(f.req.gql.id)
           \/ IsRestUsers(e) /\ IsGql(f, "users") /\ Len(e.body.items) = 2
               /\ e.body.items # f.body.items

\* C8: the listener is bound only after the storage connection is
\* established; if the connection fails the process exits with a non-zero
\* status, the listener is never bound and no request is ever served.
C8_ListenOnlyAfterConnect ==
    /\ listening => connected
    /\ open # {} => (listening /\ connected)
    /\ phase = "exited" <=> exitCode # -1
    /\ phase = "exited" =>
          /\ exitCode # 0 /\ ~connected /\ ~listening /\ open = {}
          /\ ~ENABLED Next

C8_Witness == phase = "exited" /\ exitCode = 1 /\ ~listening

\* C9 as stated: a 400 of GET /users/:id carries {error: "invalid id"} and a
\* 404 carries {error: "not found"}.
C9_ErrorBodiesOfTheTable ==
    \A e \in open :
        (IsRestUser(e) /\ e.pc = "done")
        => /\ e.status = 400 => e.body = JsonObject([error |-> "invalid id"])
           /\ e.status = 404 => e.body = JsonObject([error |-> "not found"])

\* C9 as amended: a 400 of GET /users/:id carries {error: "ID inválido"} and
\* a 404 carries {error: "Usuario no encontrado"}.
C9_ErrorBodiesOfTheCode ==
    \A e \in open :
        (IsRestUser(e) /\ e.pc = "done")
        => /\ e.status = 400 => e.body = JsonObject([error |-> "ID inválido"])
           /\ e.status = 404 =>
                e.body = JsonObject([error |-> "Usuario no encontrado"])

C9_Witness ==
    \E e, f \in open :
        /\ IsRestUser(e) /\ e.pc = "done" /\ e.status = 400
        /\ IsRestUser(f) /\ f.pc = "done" /\ f.status = 404

\* The responses the request would get served alone against table d.
Alone(req, d) ==
    LET e == Dispatch(ConstructorStack, req)
        after(out) ==
            CASE e.ran[Len(e.ran)] = "GET /users/:id" -> RestUserAfter(e, out)
              [] e.ran[Len(e.ran)] = "GET /users" -> RestUsersAfter(e, out)
              [] OTHER -> GraphQLAfter(e, out)
    IN  IF e.pc = "await" THEN {after(out) : out \in Outcomes(d, e.query)}
        ELSE {e}

\* C10: no step changes the stored users, and whatever the interleaving of
\* the requests in flight, every response a step produces is one the request
\* could get served alone against the stored users.
C10_ReadOnlyAndRaceFree ==
    [][/\ db' = db
       /\ \A e \in open' \ open :
             e.pc # "await" => e \in Alone(e.req, db')]_vars

C10_Witness ==
    \E e, f \in open :
        /\ e.pc = "done" /\ e.query.op = "findUnique" /\ IsRestUser(e)
        /\ f.pc = "await" /\ f.query.op = "findUnique"
        /\ f.query.arg # e.query.arg

=============================================================================
